---- MODULE Spec2Model ----
(***************************************************************************)
(* Model of the fetch-and-extract engine of rusty-roms                     *)
(* (src/src-tauri/src/download.rs): the job download_file, the downloaders *)
(* ranged_parallel_download_4 and single_stream_download, the worker       *)
(* threads of the parallel path, and the extractor extract_zip with its    *)
(* path sanitizer safe_join.                                               *)
(*                                                                         *)
(* Sizes are counted in bytes.  total_size is a u64 in the code; set_len   *)
(* (line 182) refuses a size above i64::MAX, so (total_size + 3) and       *)
(* start + chunk_size (lines 189, 197) cannot wrap for any size that       *)
(* reaches the range computation, and plain integers model them.           *)
(***************************************************************************)
EXTENDS Integers, Sequences, FiniteSets, Bags, TLC

\* ------------------------------------------------------------------ bounds
\* Largest Content-Length a server reports, and largest body it sends.
MaxTotal == 3
\* Largest number of bytes one read() call returns.
MaxRead == 2
\* Largest number of entries of an archive.
MaxEntries == 2
\* Largest number of '/'-separated segments of an archive entry's name.
MaxSegs == 2
\* The same, for the names safe_join is applied to on its own.
MaxJoinSegs == 3
\* Largest total size the range plan is computed for on its own.
MaxPlanTotal == 64
\* Largest number of characters of a download directory (argument or setting).
MaxDirLen == 2
\* Largest number of characters of the file name handed to download_file.
MaxNameLen == 5
\* Largest length of a file the job finds at the artifact's path.
MaxOldLen == 4

\* ------------------------------------------------------- program constants
\* let chunks = 4u64;
Chunks == 4

VARIABLES
    pc,          \* position of the job's own thread (download_file and callees)
    result,      \* "running", "ok" or "err": what download_file has returned
    error,       \* the error message returned ("" while none)
    total,       \* total_size parsed from the HEAD response (0 = unknown)
    ranges,      \* TRUE iff Accept-Ranges of the HEAD response contains "bytes"
    sTotal,      \* total_size parsed from the GET response of the single stream
    sRem,        \* bytes of the single-stream body not yet read
    sDown,       \* local `downloaded` of single_stream_download
    handles,     \* Vec of JoinHandles, one [start, end] per spawned worker
    wpc,         \* position of each worker thread
    rem,         \* bytes of each worker's response body not yet read
    nbuf,        \* n: bytes held in each worker's buffer after read()
    offset,      \* each worker's local `offset`
    mutex,       \* holder of the file Mutex (0 = free)
    cursor,      \* position of the shared File between a seek and the write after it
    written,     \* per worker, the file offsets it has written, in order
    flen,        \* length of the file at zip_path (NoFile while there is none)
    requests,    \* the HTTP requests sent so far: a bag of [method, range, by]
    downloaded,  \* the shared AtomicU64
    joinIdx,     \* index of the handle the join loop is at
    log,         \* events the window accepted, in order
    windows,     \* TRUE iff the build targets Windows (paths have prefixes)
    dirs,        \* directories of the file system (paths from the root)
    files,       \* regular files written by the extractor: [path, data]
    readonly,    \* paths of the files whose permission bits allow no writing
    archive,     \* entries of the opened ZipArchive: names, in archive order
    idx,         \* index of the entry the extraction loop is at (from 1)
    modes,       \* per entry, TRUE iff its unix_mode() is Some mode without write bits
    marked,      \* is_downloaded of the job's row in the games table
    jname,       \* entry name handed to safe_join when it is run on its own
    jres,        \* what that call returned
    download_dir,\* the argument download_dir of download_file: Option<String>
    store,       \* the settings store and the home directory, as resolution finds them
    rres,        \* what resolve_download_dir returned when it is run on its own
    file_name,   \* the argument file_name of download_file
    fres,        \* final_file_name after each application of the coercion
    first_tree   \* the file tree a first extract_zip left, when it is run twice

fileVars == <<cursor, written, flen>>
dlVars == <<total, ranges, sTotal, sRem, sDown, handles, wpc, rem, nbuf, offset,
            mutex, downloaded, joinIdx, fileVars, requests>>
fsVars == <<dirs, files, readonly>>
zipVars == <<archive, idx, modes>>
joinVars == <<jname, jres>>
callVars == <<download_dir, store, rres, file_name, fres, first_tree>>
jobVars == <<windows, fsVars, zipVars, marked, joinVars, callVars>>
vars == <<pc, result, error, log, dlVars, jobVars>>

Workers == 1..Chunks

\* ------------------------------------------------------------ range plan
\* Mutant: the division rounds down.
chunk_size_floor(T) == T \div Chunks

\* let chunk_size = (total_size + chunks - 1) / chunks;
chunk_size(T) == (T + Chunks - 1) \div Chunks

Min(a, b) == IF a < b THEN a ELSE b
Max(a, b) == IF a > b THEN a ELSE b

\* let start = i * chunk_size;
RangeStart(T, i) == i * chunk_size(T)

\* Mutant: the inclusive end lies one byte too far.
RangeEndOffByOne(T, i) == Min(RangeStart(T, i) + chunk_size(T), T - 1)

\* let end = ((start + chunk_size) - 1).min(total_size - 1);
RangeEnd(T, i) == Min((RangeStart(T, i) + chunk_size(T)) - 1, T - 1)

RECURSIVE PlanFromNoSkip(_, _)
\* Mutant: the spawn loop has no skip rule.
PlanFromNoSkip(T, i) ==
    IF i >= Chunks THEN <<>>
    ELSE <<[start |-> RangeStart(T, i), end |-> RangeEnd(T, i)]>>
             \o PlanFromNoSkip(T, i + 1)

RECURSIVE PlanFrom(_, _)
\* for i in 0..chunks { if start >= total_size { continue; } ... handles.push }
PlanFrom(T, i) ==
    IF i >= Chunks THEN <<>>
    ELSE IF RangeStart(T, i) >= T THEN PlanFrom(T, i + 1)
    ELSE <<[start |-> RangeStart(T, i), end |-> RangeEnd(T, i)]>>
             \o PlanFrom(T, i + 1)

PlanRanges(T) == PlanFrom(T, 0)

\* ------------------------------------------------------------ progress text
\* format!("{:.2}%", (done as f64 / total as f64) * 100.0), held as the number
\* of hundredths of a percent the text shows (rounded to nearest; no quotient
\* within the bounds lies half-way between two hundredths).
Percent(done, tot) == (2 * 10000 * done + tot) \div (2 * tot)

\* the literal "100.00%"
Hundred == Percent(1, 1)

PctEvent(h) == [k |-> "percent", v |-> h]
MsgEvent(m) == [k |-> m, v |-> 0]

HasEvent(m) == \E i \in DOMAIN log : log[i].k = m

\* The polling loop emits one notification per 150 ms for as long as it runs.
\* Of a run of consecutive poll notifications the log keeps the latest one; a
\* poll notification smaller than the one before it is kept beside it.
Polled(l, e) ==
    IF Len(l) > 0 /\ l[Len(l)].k = "percent" /\ l[Len(l)].v <= e.v
    THEN [l EXCEPT ![Len(l)] = e]
    ELSE Append(l, e)

\* ------------------------------------------------------------ paths
\* An entry name is held as its '/'-separated segments: "a/b" is <<"a", "b">>,
\* "/a" is <<"", "a">>, "a/" is <<"a", "">>, "" is <<"">>.
Segs == {"", ".", "..", "a", "C:"}
\* More segments for the names safe_join is applied to on its own.
JoinSegs == Segs \cup {"b", "c.txt", "x"}

RECURSIVE SeqsUpTo(_, _)
SeqsUpTo(S, n) ==
    IF n = 0 THEN {<<>>}
    ELSE SeqsUpTo(S, n - 1)
           \cup {Append(q, x) : q \in {r \in SeqsUpTo(S, n - 1) : Len(r) = n - 1}, x \in S}

\* Names of archive entries, and archives.
Names == SeqsUpTo(Segs, MaxSegs) \ {<<>>}
JoinNames == SeqsUpTo(JoinSegs, MaxJoinSegs) \ {<<>>}
Archives == SeqsUpTo(Names, MaxEntries)

\* Directories the job works in: downloads_dir, downloads_dir/<stem> and the
\* artifact downloads_dir/<stem>.zip, as paths from the file system's root.
DownloadsDir == <<"dl">>
ExtractDir == <<"dl", "x">>

\* std::path::Path::components() of an entry name: a leading separator gives
\* RootDir, a leading drive gives Prefix (Windows only), empty segments and
\* every "." but a leading one are normalised away.
ComponentAt(win, name, i) ==
    LET seg == name[i] IN
    IF seg = "" THEN (IF i = 1 /\ Len(name) > 1 THEN "RootDir" ELSE "None")
    ELSE IF seg = "." THEN (IF i = 1 THEN "CurDir" ELSE "None")
    ELSE IF seg = ".." THEN "ParentDir"
    ELSE IF seg = "C:" /\ i = 1 /\ win THEN "Prefix"
    ELSE "Normal"

RECURSIVE ComponentsFrom(_, _, _)
ComponentsFrom(win, name, i) ==
    IF i > Len(name) THEN <<>>
    ELSE LET c == ComponentAt(win, name, i) IN
         (IF c = "None" THEN <<>> ELSE <<[kind |-> c, part |-> name[i]]>>)
             \o ComponentsFrom(win, name, i + 1)

components(win, name) == ComponentsFrom(win, name, 1)

NoResult == [ok |-> FALSE, path |-> <<>>]

RECURSIVE CleanWith(_, _, _, _)
\* The match of safe_join, run over the components: the kinds in `pushed` are
\* pushed onto `clean`, the kinds in `rejected` return the error, the others
\* are dropped.
CleanWith(cs, i, pushed, rejected) ==
    IF i > Len(cs) THEN [ok |-> TRUE, path |-> <<>>]
    ELSE IF cs[i].kind \in rejected THEN NoResult
    ELSE LET rest == CleanWith(cs, i + 1, pushed, rejected) IN
         IF ~rest.ok THEN NoResult
         ELSE IF cs[i].kind \in pushed
              THEN [ok |-> TRUE, path |-> <<cs[i].part>> \o rest.path]
              ELSE rest

\* Ok(dest_dir.join(clean)), or the error.
JoinWith(win, dest_dir, entry_name, pushed, rejected) ==
    LET clean == CleanWith(components(win, entry_name), 1, pushed, rejected) IN
    IF clean.ok THEN [ok |-> TRUE, path |-> dest_dir \o clean.path] ELSE NoResult

\* Mutant: ParentDir is pushed like a Normal component.
safe_join_keeps_parent(win, dest_dir, entry_name) ==
    JoinWith(win, dest_dir, entry_name, {"Normal", "ParentDir"}, {"RootDir", "Prefix"})

\* Mutant: a leading separator is dropped like a CurDir component.
safe_join_drops_root(win, dest_dir, entry_name) ==
    JoinWith(win, dest_dir, entry_name, {"Normal"}, {"Prefix", "ParentDir"})

\* fn safe_join(dest_dir, entry_name) -> Result<PathBuf, String>
safe_join(win, dest_dir, entry_name) ==
    JoinWith(win, dest_dir, entry_name, {"Normal"}, {"RootDir", "Prefix", "ParentDir"})

\* ZipFile::is_dir(): the name ends in a separator.
is_dir(name) == Len(name) > 1 /\ name[Len(name)] = ""

\* outpath.parent()
Parent(path) == SubSeq(path, 1, Len(path) - 1)

RECURSIVE Resolve(_)
\* The directory a path names once the file system has followed its ".."s.
Resolve(path) ==
    IF path = <<>> THEN <<>>
    ELSE LET front == Resolve(Parent(path))
             last == path[Len(path)] IN
         IF last = ".." THEN (IF front = <<>> THEN <<>> ELSE Parent(front))
         ELSE Append(front, last)

Prefixes(path) == {SubSeq(path, 1, n) : n \in 0..Len(path)}

IsFile(fs, path) == \E f \in fs : f.path = path

\* fs::create_dir_all(path): fails when a regular file is in the way.
CanCreateDirAll(fs, path) == \A q \in Prefixes(Resolve(path)) : ~IsFile(fs, q)
CreateDirAll(ds, path) == ds \cup Prefixes(Resolve(path))

\* File::create(path) followed by io::copy of `data`: fails when the path names
\* a directory or its parent is no directory; truncates an existing file.
CanCreateFile(ds, path) ==
    LET r == Resolve(path) IN r \notin ds /\ r # <<>> /\ Parent(r) \in ds
WriteFile(fs, path, data) ==
    {f \in fs : f.path # Resolve(path)} \cup {[path |-> Resolve(path), data |-> data]}

\* File::create on an existing file needs write permission (the process is not
\* privileged).
Writable(ro, path) == Resolve(path) \notin ro

\* fs::set_permissions(&outpath, Permissions::from_mode(mode)), compiled on unix
\* only; an entry without read-only mode leaves a created file writable.
set_permissions(ro, win, path, read_only) ==
    IF read_only /\ ~win THEN ro \cup {Resolve(path)} ELSE ro

\* The file entries of an archive: the entries unix_mode() is read of.
IsFileEntry(win, name) == ~is_dir(name) /\ safe_join(win, ExtractDir, name).ok

\* The modes an archive's entries can carry, an entry that is no file counting
\* as one without read-only mode.
Modes(win, a) ==
    {m \in [DOMAIN a -> BOOLEAN] : \A i \in DOMAIN a : m[i] => IsFileEntry(win, a[i])}

\* No first run has been recorded.
NoTree == [run |-> FALSE, dirs |-> {}, files |-> {}]

\* ------------------------------------------------------------ destination
\* A String is held as the sequence of its characters; Option<String> as a record.
None == [some |-> FALSE, val |-> <<>>]
Some(v) == [some |-> TRUE, val |-> v]

DirChars == {" ", "d"}
DirStrings == SeqsUpTo(DirChars, MaxDirLen)

RECURSIVE trim_start(_)
trim_start(v) == IF v # <<>> /\ Head(v) = " " THEN trim_start(Tail(v)) ELSE v

RECURSIVE trim_end(_)
trim_end(v) ==
    IF v # <<>> /\ v[Len(v)] = " " THEN trim_end(SubSeq(v, 1, Len(v) - 1)) ELSE v

\* str::trim()
trim(v) == trim_end(trim_start(v))

ResolveOk(v) == [ok |-> TRUE, path |-> v, err |-> ""]
ResolveErr(m) == [ok |-> FALSE, path |-> <<>>, err |-> m]

\* The settings store as one call finds it: whether the database opens, whether
\* the settings table can be ensured, what the SELECT of 'download_dir' returns
\* (a row, no row, or an error), and whether dirs::home_dir() is Some.
Stores ==
    [db : {"ok", "unopenable", "no_table"}, row : {Some(v) : v \in DirStrings} \cup {None},
     query_ok : BOOLEAN, home : BOOLEAN]
NoStore == [db |-> "ok", row |-> None, query_ok |-> TRUE, home |-> TRUE]

\* fn default_download_dir(): ~/.rusty-roms/downloads
default_download_dir(st) ==
    IF st.home THEN ResolveOk(<<"~", "/", ".rusty-roms", "/", "downloads">>)
    ELSE ResolveErr("...")

\* Mutant: an override is used whatever it holds.
resolve_download_dir_unchecked(override_dir, st) ==
    IF override_dir.some THEN ResolveOk(override_dir.val)
    ELSE IF st.db = "unopenable" THEN ResolveErr("Failed to open DB")
    ELSE IF st.db = "no_table" THEN ResolveErr("Failed creating settings table")
    ELSE IF st.query_ok /\ st.row.some /\ trim(st.row.val) # <<>>
         THEN ResolveOk(st.row.val)
         ELSE default_download_dir(st)

\* fn resolve_download_dir(override_dir: Option<String>) -> Result<PathBuf, String>
resolve_download_dir(override_dir, st) ==
    IF override_dir.some
    THEN IF trim(override_dir.val) = <<>>
         THEN ResolveErr("downloadDir cannot be empty")
         ELSE ResolveOk(override_dir.val)
    ELSE IF st.db = "unopenable" THEN ResolveErr("Failed to open DB")
    ELSE IF st.db = "no_table" THEN ResolveErr("Failed creating settings table")
    ELSE IF st.query_ok /\ st.row.some /\ trim(st.row.val) # <<>>
         THEN ResolveOk(st.row.val)
         ELSE default_download_dir(st)

\* ------------------------------------------------------------ artifact name
NameChars == {".", "z", "Z", "i", "I", "p", "P"}
FileNames == SeqsUpTo(NameChars, MaxNameLen)

\* u8::to_ascii_lowercase of one character
char_to_ascii_lowercase(c) ==
    IF c = "Z" THEN "z" ELSE IF c = "I" THEN "i" ELSE IF c = "P" THEN "p" ELSE c

\* str::to_ascii_lowercase()
to_ascii_lowercase(v) == [i \in DOMAIN v |-> char_to_ascii_lowercase(v[i])]

\* str::ends_with(suffix)
ends_with(v, suffix) ==
    Len(v) >= Len(suffix) /\ SubSeq(v, Len(v) - Len(suffix) + 1, Len(v)) = suffix

DotZip == <<".", "z", "i", "p">>

\* Mutant: the extension is compared without lowering the case.
force_zip_case_sensitive(name) ==
    IF ~ends_with(name, DotZip) THEN name \o DotZip ELSE name

\* Lines 346-349: final_file_name, the name with ".zip" forced.
force_zip(name) ==
    IF ~ends_with(to_ascii_lowercase(name), DotZip) THEN name \o DotZip ELSE name

\* ------------------------------------------------------------ artifact file
\* The length of a file that does not exist.
NoFile == -1

\* What the job can find at the artifact's path: nothing, or a file left by an
\* earlier download.
OldLens == {NoFile} \cup 0..MaxOldLen

\* OpenOptions::new().create(true).write(true).read(true).open(path): a file
\* that exists is opened as it is, a missing one is created empty.
open_create(len) == IF len = NoFile THEN 0 ELSE len

\* ------------------------------------------------------------ requests
\* client.head(url).send()
HeadRequest == [method |-> "HEAD", range |-> <<>>, by |-> 0]
\* client.get(url).send() of the single stream
BodyRequest == [method |-> "GET", range |-> <<>>, by |-> 0]
\* client.get(&url).header(RANGE, "bytes={start}-{end}").send() of worker w
RangeRequest(w) ==
    [method |-> "GET", range |-> <<handles[w].start, handles[w].end>>, by |-> w]

\* send() was called on the request.
Sent(req) == requests' = requests (+) SetToBag({req})

\* ------------------------------------------------------------ returning
\* `return Err(msg)` / `?` reaching download_file's caller.
Fail(msg) ==
    /\ pc' = "done"
    /\ result' = "err"
    /\ error' = msg

Continue(next) ==
    /\ pc' = next
    /\ UNCHANGED <<result, error>>

Init ==
    /\ pc = "start"
    /\ result = "running"
    /\ error = ""
    /\ total = 0
    /\ ranges = FALSE
    /\ sTotal = 0
    /\ sRem = 0
    /\ sDown = 0
    /\ handles = <<>>
    /\ wpc = [w \in Workers |-> "none"]
    /\ rem = [w \in Workers |-> 0]
    /\ nbuf = [w \in Workers |-> 0]
    /\ offset = [w \in Workers |-> 0]
    /\ mutex = 0
    /\ cursor = 0
    /\ written = [w \in Workers |-> <<>>]
    /\ flen \in OldLens
    /\ requests = EmptyBag
    /\ downloaded = 0
    /\ joinIdx = 0
    /\ log = <<>>
    /\ windows = FALSE
    /\ dirs = {<<>>}
    /\ files = {}
    /\ readonly = {}
    /\ archive = <<>>
    /\ idx = 0
    /\ modes = <<>>
    /\ marked = FALSE
    /\ jname = <<"">>
    /\ jres = NoResult
    /\ download_dir = None
    /\ store = NoStore
    /\ rres = ResolveErr("")
    /\ file_name = <<>>
    /\ fres = <<>>
    /\ first_tree = NoTree

\* ------------------------------------------------------------ capability probe
\* Mutant: the destination file is created before the probe's answer is looked at.
ProbeCreatesFile ==
    /\ UNCHANGED jobVars
    /\ pc = "head"
    /\ Sent(HeadRequest)
    /\ flen' = 0
    /\ \/ /\ Fail("HEAD failed")
          /\ UNCHANGED <<total, ranges>>
       \/ /\ Fail("HEAD HTTP error")
          /\ UNCHANGED <<total, ranges>>
       \/ \E t \in 0..MaxTotal, r \in BOOLEAN :
            /\ total' = t
            /\ ranges' = r
            /\ Continue(IF t = 0 \/ ~r THEN "single_get" ELSE "open")
    /\ UNCHANGED <<log, sTotal, sRem, sDown, handles, wpc, rem, nbuf, offset, mutex,
                   downloaded, joinIdx, cursor, written>>

\* Mutant: the routing looks at the size alone.
ProbeIgnoresRanges ==
    /\ UNCHANGED jobVars
    /\ pc = "head"
    /\ Sent(HeadRequest)
    /\ \/ /\ Fail("HEAD failed")
          /\ UNCHANGED <<total, ranges>>
       \/ /\ Fail("HEAD HTTP error")
          /\ UNCHANGED <<total, ranges>>
       \/ \E t \in 0..MaxTotal, r \in BOOLEAN :
            /\ total' = t
            /\ ranges' = r
            /\ Continue(IF t = 0 THEN "single_get" ELSE "open")
    /\ UNCHANGED <<log, sTotal, sRem, sDown, handles, wpc, rem, nbuf, offset, mutex,
                   downloaded, joinIdx, fileVars>>

\* Lines 152-173: HEAD request, Content-Length and Accept-Ranges, routing.
Probe ==
    /\ UNCHANGED jobVars
    /\ pc = "head"
    /\ Sent(HeadRequest)
    /\ \/ /\ Fail("HEAD failed")
          /\ UNCHANGED <<total, ranges>>
       \/ /\ Fail("HEAD HTTP error")
          /\ UNCHANGED <<total, ranges>>
       \/ \E t \in 0..MaxTotal, r \in BOOLEAN :
            /\ total' = t
            /\ ranges' = r
            /\ Continue(IF t = 0 \/ ~r THEN "single_get" ELSE "open")
    /\ UNCHANGED <<log, sTotal, sRem, sDown, handles, wpc, rem, nbuf, offset, mutex,
                   downloaded, joinIdx, fileVars>>

\* ------------------------------------------------------------ single stream
\* Lines 96-119: GET, status check, Content-Length, File::create, and the
\* indeterminate notification when the size is unknown.
SingleGet ==
    /\ UNCHANGED jobVars
    /\ pc = "single_get"
    /\ Sent(BodyRequest)
    /\ \/ /\ \E m \in {"Request failed", "HTTP error", "File create error"} : Fail(m)
          /\ UNCHANGED <<log, sTotal, sRem, sDown, flen>>
       \/ \E t \in 0..MaxTotal, body \in 0..MaxTotal :
            \* a body framed by Content-Length carries exactly that many bytes
            /\ t > 0 => body = t
            /\ sTotal' = t
            /\ sRem' = body
            /\ sDown' = 0
            \* File::create: the file is created, or truncated when it exists
            /\ flen' = 0
            /\ \/ /\ t = 0
                  /\ \/ /\ log' = Append(log, MsgEvent("Downloading"))
                        /\ Continue("single_read")
                     \/ /\ Fail("Emit failed")
                        /\ UNCHANGED log
               \/ /\ t > 0
                  /\ Continue("single_read")
                  /\ UNCHANGED log
    /\ UNCHANGED <<total, ranges, handles, wpc, rem, nbuf, offset, mutex,
                   downloaded, joinIdx, cursor, written>>

\* Mutant: the final "100.00%" is emitted whether or not the size is known.
SingleReadAlwaysFinal ==
    /\ UNCHANGED jobVars
    /\ pc = "single_read"
    /\ \/ /\ sRem > 0
          /\ \E n \in 1..Min(sRem, MaxRead) :
               /\ sRem' = sRem - n
               /\ sDown' = sDown + n
               /\ flen' = flen + n
               /\ IF sTotal > 0
                  THEN log' = Append(log, PctEvent(Percent(sDown + n, sTotal)))
                  ELSE UNCHANGED log
               /\ Continue("single_read")
          /\ UNCHANGED <<total, ranges, sTotal, handles, wpc, rem, nbuf, offset,
                         mutex, downloaded, joinIdx, cursor, written, requests>>
       \/ /\ sRem = 0
          /\ log' = Append(log, PctEvent(Hundred))
          /\ Continue("extracting")
          /\ UNCHANGED dlVars

\* Lines 121-142: one iteration of the read loop, or its exit.
SingleRead ==
    /\ UNCHANGED jobVars
    /\ pc = "single_read"
    /\ \/ /\ \E m \in {"Read error"} : Fail(m)
          /\ UNCHANGED <<log, dlVars>>
       \/ /\ sRem > 0
          \* a write_all that fails has written fewer than the n bytes read
          /\ \E n \in 1..Min(sRem, MaxRead) : \E k \in 0..(n - 1) : flen' = flen + k
          /\ \E m \in {"Write error"} : Fail(m)
          /\ UNCHANGED <<log, total, ranges, sTotal, sRem, sDown, handles, wpc, rem,
                         nbuf, offset, mutex, downloaded, joinIdx, cursor, written,
                         requests>>
       \/ /\ sRem > 0
          /\ \E n \in 1..Min(sRem, MaxRead) :
               /\ sRem' = sRem - n
               /\ sDown' = sDown + n
               /\ flen' = flen + n
               /\ IF sTotal > 0
                  THEN \/ /\ log' = Append(log, PctEvent(Percent(sDown + n, sTotal)))
                          /\ Continue("single_read")
                       \/ /\ Fail("Emit failed")
                          /\ UNCHANGED log
                  ELSE /\ Continue("single_read")
                       /\ UNCHANGED log
          /\ UNCHANGED <<total, ranges, sTotal, handles, wpc, rem, nbuf, offset,
                         mutex, downloaded, joinIdx, cursor, written, requests>>
       \/ /\ sRem = 0
          /\ IF sTotal > 0
             THEN \/ /\ log' = Append(log, PctEvent(Hundred))
                     /\ Continue("extracting")
                  \/ /\ Fail("Emit failed")
                     /\ UNCHANGED log
             ELSE /\ Continue("extracting")
                  /\ UNCHANGED log
          /\ UNCHANGED dlVars

\* ------------------------------------------------------------ parallel path
\* Mutant: the file is opened and not pre-sized.
OpenFileNoPresize ==
    /\ UNCHANGED jobVars
    /\ pc = "open"
    /\ \/ /\ Fail("File open error")
          /\ UNCHANGED <<flen, downloaded>>
       \/ /\ flen' = open_create(flen)
          /\ downloaded' = 0
          /\ Continue("spawn")
    /\ UNCHANGED <<log, total, ranges, sTotal, sRem, sDown, handles, wpc, rem, nbuf,
                   offset, mutex, joinIdx, cursor, written, requests>>

\* Lines 175-186: open the file, pre-size it, create the shared counter.
OpenFile ==
    /\ UNCHANGED jobVars
    /\ pc = "open"
    /\ \/ /\ Fail("File open error")
          /\ UNCHANGED <<flen, downloaded>>
       \/ /\ Fail("Failed to set file size")
          /\ flen' = open_create(flen)
          /\ UNCHANGED downloaded
       \/ /\ flen' = total
          /\ downloaded' = 0
          /\ Continue("spawn")
    /\ UNCHANGED <<log, total, ranges, sTotal, sRem, sDown, handles, wpc, rem, nbuf,
                   offset, mutex, joinIdx, cursor, written, requests>>

\* Lines 188-242: the spawn loop.
Spawn ==
    /\ UNCHANGED jobVars
    /\ pc = "spawn"
    /\ handles' = PlanRanges(total)
    /\ wpc' = [w \in Workers |-> IF w <= Len(handles') THEN "send" ELSE "none"]
    /\ offset' = [w \in Workers |-> IF w <= Len(handles') THEN handles'[w].start ELSE 0]
    /\ Continue("poll")
    /\ UNCHANGED <<log, total, ranges, sTotal, sRem, sDown, rem, nbuf, mutex,
                   downloaded, joinIdx,
                   fileVars, requests>>

\* The closure returns (Ok or Err) or unwinds from a panic inside a call into the
\* HTTP client (send or read): the thread ends and its locals are dropped.
Exit(w, how) ==
    /\ wpc' = [wpc EXCEPT ![w] = how]
    /\ rem' = [rem EXCEPT ![w] = 0]
    /\ nbuf' = [nbuf EXCEPT ![w] = 0]
    /\ offset' = [offset EXCEPT ![w] = 0]

\* Lines 205-215: the range request and the status check.  A 206 response
\* carries the bytes of the range; a 200 response of a server that ignores the
\* Range header carries the whole resource.
WSend(w) ==
    /\ UNCHANGED jobVars
    /\ wpc[w] = "send"
    /\ Sent(RangeRequest(w))
    /\ \/ Exit(w, "err")
       \/ Exit(w, "panicked")
       \/ /\ wpc' = [wpc EXCEPT ![w] = "read"]
          /\ \E body \in {handles[w].end - handles[w].start + 1, total} :
               rem' = [rem EXCEPT ![w] = body]
          /\ UNCHANGED <<nbuf, offset>>
    /\ UNCHANGED <<pc, result, error, log, total, ranges, sTotal, sRem, sDown,
                   handles, mutex, downloaded, joinIdx, fileVars>>

\* Mutant: a read that fails sends the request again.
WReadRetries(w) ==
    /\ UNCHANGED jobVars
    /\ wpc[w] = "read"
    /\ \/ /\ wpc' = [wpc EXCEPT ![w] = "send"]
          /\ UNCHANGED <<rem, nbuf, offset>>
       \/ /\ rem[w] = 0
          /\ Exit(w, "ok")
       \/ /\ rem[w] > 0
          /\ \E n \in 1..Min(rem[w], MaxRead) :
               /\ nbuf' = [nbuf EXCEPT ![w] = n]
               /\ rem' = [rem EXCEPT ![w] = rem[w] - n]
          /\ wpc' = [wpc EXCEPT ![w] = "lock"]
          /\ UNCHANGED offset
    /\ UNCHANGED <<pc, result, error, log, total, ranges, sTotal, sRem, sDown,
                   handles, mutex, downloaded, joinIdx,
                   fileVars, requests>>

\* Lines 221-224: resp.read(&mut buffer).
WRead(w) ==
    /\ UNCHANGED jobVars
    /\ wpc[w] = "read"
    /\ \/ Exit(w, "err")
       \/ Exit(w, "panicked")
       \/ /\ rem[w] = 0
          /\ Exit(w, "ok")
       \/ /\ rem[w] > 0
          /\ \E n \in 1..Min(rem[w], MaxRead) :
               /\ nbuf' = [nbuf EXCEPT ![w] = n]
               /\ rem' = [rem EXCEPT ![w] = rem[w] - n]
          /\ wpc' = [wpc EXCEPT ![w] = "lock"]
          /\ UNCHANGED offset
    /\ UNCHANGED <<pc, result, error, log, total, ranges, sTotal, sRem, sDown,
                   handles, mutex, downloaded, joinIdx,
                   fileVars, requests>>

\* Mutant: the lock is granted while another worker holds it.
WLockShared(w) ==
    /\ UNCHANGED jobVars
    /\ wpc[w] = "lock"
    /\ mutex' = w
    /\ wpc' = [wpc EXCEPT ![w] = "seek"]
    /\ UNCHANGED <<pc, result, error, log, total, ranges, sTotal, sRem, sDown,
                   handles, rem, nbuf, offset, downloaded, joinIdx, fileVars, requests>>

\* Line 227: file.lock().
WLock(w) ==
    /\ UNCHANGED jobVars
    /\ wpc[w] = "lock"
    /\ mutex = 0
    /\ mutex' = w
    /\ wpc' = [wpc EXCEPT ![w] = "seek"]
    /\ UNCHANGED <<pc, result, error, log, total, ranges, sTotal, sRem, sDown,
                   handles, rem, nbuf, offset, downloaded, joinIdx, fileVars, requests>>

\* Lines 228-229: f.seek(SeekFrom::Start(offset))?; the guard is dropped when
\* `?` leaves the block.
WSeek(w) ==
    /\ UNCHANGED jobVars
    /\ wpc[w] = "seek"
    /\ \/ /\ Exit(w, "err")
          /\ mutex' = 0
          /\ UNCHANGED cursor
       \/ /\ cursor' = offset[w]
          /\ wpc' = [wpc EXCEPT ![w] = "write"]
          /\ UNCHANGED <<rem, nbuf, offset, mutex>>
    /\ UNCHANGED <<pc, result, error, log, total, ranges, sTotal, sRem, sDown,
                   handles, downloaded, joinIdx, written, flen, requests>>

\* The offsets k bytes written at the file position `at` land on.
Landing(at, k) == [i \in 1..k |-> at + i - 1]

\* Mutant: the chunk is written at the worker's start offset, not at the file
\* position.
WriteAtStart(w, k) ==
    /\ written' = [written EXCEPT ![w] = written[w] \o Landing(handles[w].start, k)]
    /\ flen' = Max(flen, handles[w].start + k)

\* write() of k bytes: they land at the file position, and the file grows when
\* they end beyond its length.
WriteAtCursor(w, k) ==
    /\ written' = [written EXCEPT ![w] = written[w] \o Landing(cursor, k)]
    /\ flen' = Max(flen, cursor + k)

\* Mutant: the `?` after write_all is missing, a failed write is counted.
WWriteIgnoresError(w) ==
    /\ UNCHANGED jobVars
    /\ wpc[w] = "write"
    /\ mutex' = 0
    /\ cursor' = 0
    /\ \E k \in 0..nbuf[w] : WriteAtCursor(w, k)
    /\ wpc' = [wpc EXCEPT ![w] = "add"]
    /\ UNCHANGED <<rem, nbuf, offset>>
    /\ UNCHANGED <<pc, result, error, log, total, ranges, sTotal, sRem, sDown,
                   handles, downloaded, joinIdx, requests>>

\* Lines 230-232: f.write_all(&buffer[..n])?, and the guard dropped at the end
\* of the block (also when `?` leaves it).  A write_all that fails has written
\* fewer than n bytes.  The position the write leaves behind is read by nobody,
\* every block starting with an absolute seek (SeekFrom::Start): it is not kept.
WWrite(w) ==
    /\ UNCHANGED jobVars
    /\ wpc[w] = "write"
    /\ mutex' = 0
    /\ cursor' = 0
    /\ \/ /\ \E k \in 0..(nbuf[w] - 1) : WriteAtCursor(w, k)
          /\ Exit(w, "err")
       \/ /\ WriteAtCursor(w, nbuf[w])
          /\ wpc' = [wpc EXCEPT ![w] = "add"]
          /\ UNCHANGED <<rem, nbuf, offset>>
    /\ UNCHANGED <<pc, result, error, log, total, ranges, sTotal, sRem, sDown,
                   handles, downloaded, joinIdx, requests>>

\* Lines 234-235: offset += n; downloaded.fetch_add(n).
WAdd(w) ==
    /\ UNCHANGED jobVars
    /\ wpc[w] = "add"
    /\ offset' = [offset EXCEPT ![w] = offset[w] + nbuf[w]]
    /\ downloaded' = downloaded + nbuf[w]
    /\ nbuf' = [nbuf EXCEPT ![w] = 0]
    /\ wpc' = [wpc EXCEPT ![w] = "read"]
    /\ UNCHANGED <<pc, result, error, log, total, ranges, sTotal, sRem, sDown,
                   handles, rem, mutex, joinIdx,
                   fileVars, requests>>

\* Lines 245-251: one poll of the counter.
Poll ==
    /\ UNCHANGED jobVars
    /\ pc = "poll"
    /\ \/ /\ Fail("Emit failed")
          /\ UNCHANGED <<log, joinIdx>>
       \/ /\ log' = Polled(log, PctEvent(Percent(downloaded, total)))
          /\ IF downloaded >= total
             THEN /\ Continue("join")
                  /\ joinIdx' = 1
             ELSE /\ Continue("sleep")
                  /\ UNCHANGED joinIdx
    /\ UNCHANGED <<total, ranges, sTotal, sRem, sDown, handles, wpc, rem, nbuf,
                   offset, mutex, downloaded,
                   fileVars, requests>>

\* Line 253: std::thread::sleep(150 ms).
Sleep ==
    /\ UNCHANGED jobVars
    /\ pc = "sleep"
    /\ Continue("poll")
    /\ UNCHANGED <<log, dlVars>>

\* Mutant: the join loop does not wait for a worker that is still running.
JoinWithoutWaiting ==
    /\ UNCHANGED jobVars
    /\ pc = "join"
    /\ joinIdx <= Len(handles)
    /\ IF wpc[joinIdx] = "err"
       THEN /\ Fail("worker failed")
            /\ UNCHANGED joinIdx
       ELSE IF wpc[joinIdx] = "panicked"
       THEN /\ Fail("A download thread panicked")
            /\ UNCHANGED joinIdx
       ELSE /\ joinIdx' = joinIdx + 1
            /\ Continue("join")
    /\ UNCHANGED <<log, total, ranges, sTotal, sRem, sDown, handles, wpc, rem,
                   nbuf, offset, mutex, downloaded,
                   fileVars, requests>>

\* Lines 256-261: h.join() of the next handle; `res?` returns the worker's
\* error at once and drops the handles not yet joined; a worker that panicked
\* gives Err(_) and the message of line 259.
Join ==
    /\ UNCHANGED jobVars
    /\ pc = "join"
    /\ joinIdx <= Len(handles)
    /\ wpc[joinIdx] \in {"ok", "err", "panicked"}
    /\ IF wpc[joinIdx] = "err"
       THEN /\ Fail("worker failed")
            /\ UNCHANGED joinIdx
       ELSE IF wpc[joinIdx] = "panicked"
       THEN /\ Fail("A download thread panicked")
            /\ UNCHANGED joinIdx
       ELSE /\ joinIdx' = joinIdx + 1
            /\ Continue("join")
    /\ UNCHANGED <<log, total, ranges, sTotal, sRem, sDown, handles, wpc, rem,
                   nbuf, offset, mutex, downloaded,
                   fileVars, requests>>

\* Lines 263-264: the final notification, after the join loop.
Final ==
    /\ UNCHANGED jobVars
    /\ pc = "join"
    /\ joinIdx > Len(handles)
    /\ \/ /\ log' = Append(log, PctEvent(Hundred))
          /\ Continue("extracting")
       \/ /\ Fail("Emit failed")
          /\ UNCHANGED log
    /\ UNCHANGED dlVars

\* ------------------------------------------------------------ the job
\* Lines 341-356: resolve the download directory, create it, build the names.
Start ==
    /\ pc = "start"
    /\ \/ /\ \E m \in {"downloadDir cannot be empty", "Failed to open DB",
                       "Failed to create folder"} : Fail(m)
          /\ UNCHANGED dirs
       \/ /\ dirs' = CreateDirAll(dirs, DownloadsDir)
          /\ Continue("head")
    /\ UNCHANGED <<log, dlVars, windows, files, readonly, zipVars, marked, joinVars,
                   callVars>>

\* Line 369: emit_progress(&window, id, "Extracting…")?
EmitExtracting ==
    /\ pc = "extracting"
    /\ \/ /\ log' = Append(log, MsgEvent("Extracting"))
          /\ Continue("zip_open")
       \/ /\ Fail("Emit failed")
          /\ UNCHANGED log
    /\ UNCHANGED <<dlVars, jobVars>>

\* Mutant: extraction starts before the "Extracting…" notification.
ZipOpenUnannounced ==
    /\ pc = "extracting"
    /\ \E a \in Archives : \E m \in Modes(windows, a) :
         /\ archive' = a
         /\ modes' = m
         /\ idx' = 1
         /\ CanCreateDirAll(files, ExtractDir)
         /\ dirs' = CreateDirAll(dirs, ExtractDir)
         /\ Continue("zip_entry")
    /\ UNCHANGED <<log, dlVars, windows, files, readonly, marked, joinVars, callVars>>

\* Lines 286-293: open the file, read the archive, create the destination.
ZipOpen ==
    /\ pc = "zip_open"
    /\ \/ /\ \E m \in {"Failed to open zip for extraction", "Invalid zip archive"} :
               Fail(m)
          /\ UNCHANGED <<dirs, zipVars>>
       \/ \E a \in Archives : \E m \in Modes(windows, a) :
            /\ archive' = a
            /\ modes' = m
            /\ idx' = 1
            /\ \/ /\ Fail("Failed to create extract directory")
                  /\ UNCHANGED dirs
               \/ /\ CanCreateDirAll(files, ExtractDir)
                  /\ dirs' = CreateDirAll(dirs, ExtractDir)
                  /\ Continue("zip_entry")
    /\ UNCHANGED <<log, dlVars, windows, files, readonly, marked, joinVars, callVars>>

\* Mutant: the violating entry is skipped and the loop goes on.
SkipEntry ==
    /\ idx' = idx + 1
    /\ Continue("zip_entry")
    /\ UNCHANGED fsVars

\* Line 300: `safe_join(dest_dir, file.name())?` returning the error.
RejectEntry ==
    /\ Fail("Unsafe zip entry path")
    /\ UNCHANGED <<fsVars, idx>>

\* Lines 296-325: the body of the loop for the entry at idx.  The data of the
\* entry at index i is held as i; a copy that fails leaves the file with 0.  The
\* result of set_permissions is ignored (`let _ =`).
ZipEntry ==
    /\ pc = "zip_entry"
    /\ idx <= Len(archive)
    /\ LET name == archive[idx]
           out == safe_join(windows, ExtractDir, name) IN
       \/ /\ Fail("Failed reading zip entry")
          /\ UNCHANGED <<fsVars, idx>>
       \/ /\ ~out.ok
          /\ RejectEntry
       \/ /\ out.ok
          /\ is_dir(name)
          /\ IF CanCreateDirAll(files, out.path)
             THEN /\ dirs' = CreateDirAll(dirs, out.path)
                  /\ idx' = idx + 1
                  /\ Continue("zip_entry")
             ELSE /\ Fail("Failed creating dir")
                  /\ UNCHANGED <<dirs, idx>>
          /\ UNCHANGED <<files, readonly>>
       \/ /\ out.ok
          /\ ~is_dir(name)
          /\ IF ~CanCreateDirAll(files, Parent(out.path))
             THEN /\ Fail("Failed creating dir")
                  /\ UNCHANGED <<fsVars, idx>>
             ELSE /\ dirs' = CreateDirAll(dirs, Parent(out.path))
                  /\ IF ~CanCreateFile(dirs', out.path) \/ ~Writable(readonly, out.path)
                     THEN /\ Fail("Failed creating file")
                          /\ UNCHANGED <<files, readonly, idx>>
                     ELSE \/ /\ files' = WriteFile(files, out.path, idx)
                             /\ \/ readonly' = set_permissions(readonly, windows,
                                                                out.path, modes[idx])
                                \/ readonly' = readonly
                             /\ idx' = idx + 1
                             /\ Continue("zip_entry")
                          \/ /\ files' = WriteFile(files, out.path, 0)
                             /\ Fail("Failed extracting")
                             /\ UNCHANGED <<readonly, idx>>
    /\ UNCHANGED <<log, dlVars, windows, archive, modes, marked, joinVars, callVars>>

\* Lines 326-328 and 371: the loop is over, extract_zip returns Ok, and
\* emit_progress(&window, id, "Extracted")?
EmitExtracted ==
    /\ pc = "zip_entry"
    /\ idx > Len(archive)
    /\ \/ /\ log' = Append(log, MsgEvent("Extracted"))
          /\ Continue("mark")
       \/ /\ Fail("Emit failed")
          /\ UNCHANGED log
    /\ UNCHANGED <<dlVars, jobVars>>

\* Mutant: the record is marked whatever extract_zip returned.
mark_downloaded_regardless ==
    /\ \/ pc = "mark"
       \/ pc = "done" /\ idx >= 1 /\ ~HasEvent("Extracted")
    /\ ~marked
    /\ marked' = TRUE
    /\ pc' = IF pc = "mark" THEN "complete" ELSE pc
    /\ UNCHANGED <<result, error, log, dlVars, windows, fsVars, zipVars, joinVars, callVars>>

\* Lines 70-81 and 377: mark_downloaded(id)?
mark_downloaded ==
    /\ pc = "mark"
    /\ \/ /\ \E m \in {"Failed to open DB", "Failed to update is_downloaded"} : Fail(m)
          /\ UNCHANGED marked
       \/ /\ marked' = TRUE
          /\ Continue("complete")
    /\ UNCHANGED <<log, dlVars, windows, fsVars, zipVars, joinVars, callVars>>

\* Mutant: the completion event is emitted before the record is marked.
EmitCompleteEarly ==
    /\ pc = "mark"
    /\ ~HasEvent("download-complete")
    /\ log' = Append(log, MsgEvent("download-complete"))
    /\ UNCHANGED <<pc, result, error, dlVars, jobVars>>

\* Lines 380-387: window.emit("download-complete", ...)? and Ok(...).
EmitComplete ==
    /\ pc = "complete"
    /\ \/ /\ log' = Append(log, MsgEvent("download-complete"))
          /\ pc' = "done"
          /\ result' = "ok"
          /\ UNCHANGED error
       \/ /\ Fail("Emit failed")
          /\ UNCHANGED log
    /\ UNCHANGED <<dlVars, jobVars>>

Worker(w) ==
    WSend(w) \/ WRead(w) \/ WLock(w) \/ WSeek(w) \/ WWrite(w) \/ WAdd(w)

NextDownload ==
    \/ Probe
    \/ SingleGet
    \/ SingleRead
    \/ OpenFile
    \/ Spawn
    \/ Poll
    \/ Sleep
    \/ Join
    \/ Final
    \/ \E w \in Workers : Worker(w)

NextJob ==
    \/ Start
    \/ EmitExtracting
    \/ ZipOpen
    \/ ZipEntry
    \/ EmitExtracted
    \/ mark_downloaded
    \/ EmitComplete

Next == NextDownload \/ NextJob

Spec == Init /\ [][Next]_vars

\* ------------------------------------------------------------ the download alone
\* ranged_parallel_download_4 from its entry to its return, with its threads
\* running: the job's thread and every worker are operating-system threads,
\* and each one that can take a step eventually takes one.
InitDownload ==
    /\ pc = "head"
    /\ result = "running"
    /\ error = ""
    /\ total = 0
    /\ ranges = FALSE
    /\ sTotal = 0
    /\ sRem = 0
    /\ sDown = 0
    /\ handles = <<>>
    /\ wpc = [w \in Workers |-> "none"]
    /\ rem = [w \in Workers |-> 0]
    /\ nbuf = [w \in Workers |-> 0]
    /\ offset = [w \in Workers |-> 0]
    /\ mutex = 0
    /\ cursor = 0
    /\ written = [w \in Workers |-> <<>>]
    /\ flen \in OldLens
    /\ requests = EmptyBag
    /\ downloaded = 0
    /\ joinIdx = 0
    /\ log = <<>>
    /\ windows = FALSE
    /\ dirs = Prefixes(DownloadsDir)
    /\ files = {}
    /\ readonly = {}
    /\ archive = <<>>
    /\ idx = 0
    /\ modes = <<>>
    /\ marked = FALSE
    /\ jname = <<"">>
    /\ jres = NoResult
    /\ download_dir = None
    /\ store = NoStore
    /\ rres = ResolveErr("")
    /\ file_name = <<>>
    /\ fres = <<>>
    /\ first_tree = NoTree

SpecDownload == InitDownload /\ [][NextDownload]_vars

Caller == Probe \/ SingleGet \/ SingleRead \/ OpenFile \/ Spawn \/ Poll \/ Sleep
              \/ Join \/ Final

Fairness == WF_vars(Caller) /\ \A w \in Workers : WF_vars(Worker(w))

FairDownload == InitDownload /\ [][NextDownload]_vars /\ Fairness

\* ------------------------------------------------------------ the range plan alone
\* ranged_parallel_download_4 at its spawn loop, for every total size.
InitPlan ==
    /\ pc = "spawn"
    /\ result = "running"
    /\ error = ""
    /\ total \in 1..MaxPlanTotal
    /\ ranges = TRUE
    /\ sTotal = 0
    /\ sRem = 0
    /\ sDown = 0
    /\ handles = <<>>
    /\ wpc = [w \in Workers |-> "none"]
    /\ rem = [w \in Workers |-> 0]
    /\ nbuf = [w \in Workers |-> 0]
    /\ offset = [w \in Workers |-> 0]
    /\ mutex = 0
    /\ cursor = 0
    /\ written = [w \in Workers |-> <<>>]
    /\ flen = total
    /\ requests = SetToBag({HeadRequest})
    /\ downloaded = 0
    /\ joinIdx = 0
    /\ log = <<>>
    /\ windows = FALSE
    /\ dirs = Prefixes(DownloadsDir)
    /\ files = {}
    /\ readonly = {}
    /\ archive = <<>>
    /\ idx = 0
    /\ modes = <<>>
    /\ marked = FALSE
    /\ jname = <<"">>
    /\ jres = NoResult
    /\ download_dir = None
    /\ store = NoStore
    /\ rres = ResolveErr("")
    /\ file_name = <<>>
    /\ fres = <<>>
    /\ first_tree = NoTree

NextPlan == Spawn

SpecPlan == InitPlan /\ [][NextPlan]_vars

\* ------------------------------------------------------------ safe_join alone
\* safe_join applied to one entry name under the root /dest, on either platform.
Dest == <<"dest">>

InitJoin ==
    /\ pc = "safe_join"
    /\ result = "running"
    /\ error = ""
    /\ total = 0
    /\ ranges = FALSE
    /\ sTotal = 0
    /\ sRem = 0
    /\ sDown = 0
    /\ handles = <<>>
    /\ wpc = [w \in Workers |-> "none"]
    /\ rem = [w \in Workers |-> 0]
    /\ nbuf = [w \in Workers |-> 0]
    /\ offset = [w \in Workers |-> 0]
    /\ mutex = 0
    /\ cursor = 0
    /\ written = [w \in Workers |-> <<>>]
    /\ flen = NoFile
    /\ requests = EmptyBag
    /\ downloaded = 0
    /\ joinIdx = 0
    /\ log = <<>>
    /\ windows \in BOOLEAN
    /\ dirs = {<<>>}
    /\ files = {}
    /\ readonly = {}
    /\ archive = <<>>
    /\ idx = 0
    /\ modes = <<>>
    /\ marked = FALSE
    /\ jname \in JoinNames
    /\ jres = NoResult
    /\ download_dir = None
    /\ store = NoStore
    /\ rres = ResolveErr("")
    /\ file_name = <<>>
    /\ fres = <<>>
    /\ first_tree = NoTree

SafeJoinCall ==
    /\ pc = "safe_join"
    /\ jres' = safe_join(windows, Dest, jname)
    /\ pc' = "returned"
    /\ UNCHANGED <<result, error, log, dlVars, windows, fsVars, zipVars, marked, jname, callVars>>

NextJoin == SafeJoinCall

SpecJoin == InitJoin /\ [][NextJoin]_vars

\* ------------------------------------------------------------ resolution alone
\* resolve_download_dir applied to one override with the store in one condition.
InitResolve ==
    /\ pc = "resolve"
    /\ result = "running"
    /\ error = ""
    /\ total = 0
    /\ ranges = FALSE
    /\ sTotal = 0
    /\ sRem = 0
    /\ sDown = 0
    /\ handles = <<>>
    /\ wpc = [w \in Workers |-> "none"]
    /\ rem = [w \in Workers |-> 0]
    /\ nbuf = [w \in Workers |-> 0]
    /\ offset = [w \in Workers |-> 0]
    /\ mutex = 0
    /\ cursor = 0
    /\ written = [w \in Workers |-> <<>>]
    /\ flen = NoFile
    /\ requests = EmptyBag
    /\ downloaded = 0
    /\ joinIdx = 0
    /\ log = <<>>
    /\ windows = FALSE
    /\ dirs = {<<>>}
    /\ files = {}
    /\ readonly = {}
    /\ archive = <<>>
    /\ idx = 0
    /\ modes = <<>>
    /\ marked = FALSE
    /\ jname = <<"">>
    /\ jres = NoResult
    /\ download_dir \in {Some(v) : v \in DirStrings} \cup {None}
    /\ store \in Stores
    /\ rres = ResolveErr("")
    /\ file_name = <<>>
    /\ fres = <<>>
    /\ first_tree = NoTree

ResolveCall ==
    /\ pc = "resolve"
    /\ rres' = resolve_download_dir(download_dir, store)
    /\ pc' = "resolved"
    /\ UNCHANGED <<result, error, log, dlVars, windows, fsVars, zipVars, marked,
                   joinVars, download_dir, store, file_name, fres, first_tree>>

NextResolve == ResolveCall

SpecResolve == InitResolve /\ [][NextResolve]_vars

\* ------------------------------------------------------------ the name alone
\* The coercion of lines 346-349 applied to a file name, and again to its result.
InitName ==
    /\ pc = "name"
    /\ result = "running"
    /\ error = ""
    /\ total = 0
    /\ ranges = FALSE
    /\ sTotal = 0
    /\ sRem = 0
    /\ sDown = 0
    /\ handles = <<>>
    /\ wpc = [w \in Workers |-> "none"]
    /\ rem = [w \in Workers |-> 0]
    /\ nbuf = [w \in Workers |-> 0]
    /\ offset = [w \in Workers |-> 0]
    /\ mutex = 0
    /\ cursor = 0
    /\ written = [w \in Workers |-> <<>>]
    /\ flen = NoFile
    /\ requests = EmptyBag
    /\ downloaded = 0
    /\ joinIdx = 0
    /\ log = <<>>
    /\ windows = FALSE
    /\ dirs = {<<>>}
    /\ files = {}
    /\ readonly = {}
    /\ archive = <<>>
    /\ idx = 0
    /\ modes = <<>>
    /\ marked = FALSE
    /\ jname = <<"">>
    /\ jres = NoResult
    /\ download_dir = None
    /\ store = NoStore
    /\ rres = ResolveErr("")
    /\ file_name \in FileNames
    /\ fres = <<>>
    /\ first_tree = NoTree

ForceZip ==
    /\ pc = "name"
    /\ Len(fres) < 2
    /\ fres' = Append(fres, force_zip(IF fres = <<>> THEN file_name ELSE fres[Len(fres)]))
    /\ UNCHANGED <<pc, result, error, log, dlVars, windows, fsVars, zipVars, marked,
                   joinVars, download_dir, store, rres, file_name, first_tree>>

NextName == ForceZip

SpecName == InitName /\ [][NextName]_vars
\* ------------------------------------------------------------ extract_zip twice
\* extract_zip run on an archive, and run again on the same archive into the
\* same destination once the first run has returned Ok.
InitExtract ==
    /\ pc = "zip_open"
    /\ result = "running"
    /\ error = ""
    /\ total = 0
    /\ ranges = FALSE
    /\ sTotal = 0
    /\ sRem = 0
    /\ sDown = 0
    /\ handles = <<>>
    /\ wpc = [w \in Workers |-> "none"]
    /\ rem = [w \in Workers |-> 0]
    /\ nbuf = [w \in Workers |-> 0]
    /\ offset = [w \in Workers |-> 0]
    /\ mutex = 0
    /\ cursor = 0
    /\ written = [w \in Workers |-> <<>>]
    /\ flen = MaxTotal
    /\ requests = EmptyBag
    /\ downloaded = 0
    /\ joinIdx = 0
    /\ log = <<>>
    /\ windows = FALSE
    /\ dirs = Prefixes(DownloadsDir)
    /\ files = {}
    /\ readonly = {}
    /\ archive = <<>>
    /\ idx = 0
    /\ modes = <<>>
    /\ marked = FALSE
    /\ jname = <<"">>
    /\ jres = NoResult
    /\ download_dir = None
    /\ store = NoStore
    /\ rres = ResolveErr("")
    /\ file_name = <<>>
    /\ fres = <<>>
    /\ first_tree = NoTree

\* Lines 326-328 of the first run (the loop is over, Ok(())) and lines 286-293
\* of the second: the same archive is opened and the destination made again.
ExtractAgain ==
    /\ pc = "zip_entry"
    /\ idx > Len(archive)
    /\ ~first_tree.run
    /\ first_tree' = [run |-> TRUE, dirs |-> dirs, files |-> files]
    /\ \/ /\ \E m \in {"Failed to open zip for extraction", "Invalid zip archive",
                       "Failed to create extract directory"} : Fail(m)
          /\ UNCHANGED <<dirs, idx>>
       \/ /\ CanCreateDirAll(files, ExtractDir)
          /\ dirs' = CreateDirAll(dirs, ExtractDir)
          /\ idx' = 1
          /\ Continue("zip_entry")
    /\ UNCHANGED <<log, dlVars, windows, files, readonly, archive, modes, marked,
                   joinVars, download_dir, store, rres, file_name, fres>>

\* Lines 326-328 of the second run: Ok(()).
ExtractedTwice ==
    /\ pc = "zip_entry"
    /\ idx > Len(archive)
    /\ first_tree.run
    /\ pc' = "extracted_twice"
    /\ UNCHANGED <<result, error, log, dlVars, jobVars>>

NextExtract ==
    \/ ZipOpen
    \/ ZipEntry
    \/ ExtractAgain
    \/ ExtractedTwice

SpecExtract == InitExtract /\ [][NextExtract]_vars

\* ============================================================ claims
Spawned == 1..Len(handles)
Terminated(w) == wpc[w] \in {"ok", "err", "panicked"}
Count(m) == Cardinality({i \in DOMAIN log : log[i].k = m})

\* C1: once a worker of the parallel download has failed, the download
\* eventually returns an error to the job (it does not stay in the polling loop).
C1_WorkerFailureIsReported ==
    (\E w \in Workers : wpc[w] = "err") ~> (result = "err")

\* C3: when the download has returned a worker's error, every spawned worker has
\* terminated (was joined): none is still running.
C3_AllJoinedBeforeWorkerError ==
    (result = "err" /\ error = "worker failed") => \A w \in Spawned : Terminated(w)

\* The downloader that ran knew the total size when it started: the parallel
\* one from the probe, the single stream from its own response.
SizeKnown == (total > 0 /\ ranges) \/ sTotal > 0

\* C4: the percentages emitted in one job never decrease, and a job that
\* succeeds with the total size known has emitted "100.00%".
C4_ProgressMonotoneAndComplete ==
    /\ \A i, j \in DOMAIN log :
         (i < j /\ log[i].k = "percent" /\ log[j].k = "percent") => log[i].v <= log[j].v
    /\ (result = "ok" /\ SizeKnown) =>
         \E i \in DOMAIN log : log[i] = PctEvent(Hundred)
\* C2: after the spawn loop the ranges start at 0, end at T-1, follow one another
\* without gap or overlap, cover every byte of [0,T) exactly once, and are four
\* ranges of T/4 bytes when T is a multiple of 4.
C2_RangesPartitionTotal ==
    pc = "poll" =>
      /\ Len(handles) >= 1
      /\ handles[1].start = 0
      /\ handles[Len(handles)].end = total - 1
      /\ \A k \in Spawned : handles[k].start <= handles[k].end
      /\ \A k \in Spawned : k < Len(handles) => handles[k + 1].start = handles[k].end + 1
      /\ \A b \in 0..(total - 1) :
           Cardinality({k \in Spawned : handles[k].start <= b /\ b <= handles[k].end}) = 1
      /\ total % Chunks = 0 =>
           /\ Len(handles) = Chunks
           /\ \A k \in Spawned : handles[k].end - handles[k].start + 1 = total \div Chunks

C2_Witness == pc = "poll" /\ total = 10 /\ Len(handles) = 4 /\ handles[4].end = 9

IsUnder(root, path) == Len(path) >= Len(root) /\ SubSeq(path, 1, Len(root)) = root

\* C5: every directory of the file system is the destination, one of its
\* ancestors (made before extraction) or lies under it, and every file the
\* extractor wrote lies under the destination.
C5_NothingOutsideDestination ==
    /\ \A d \in dirs : d \in Prefixes(ExtractDir) \/ IsUnder(ExtractDir, d)
    /\ \A f \in files : IsUnder(ExtractDir, f.path) /\ f.path # ExtractDir
    /\ idx = 0 => (files = {} /\ dirs \subseteq Prefixes(DownloadsDir))

C5_Witness ==
    /\ error = "Unsafe zip entry path"
    /\ idx = 2
    /\ archive = << <<"a", "a">>, <<"..", "a">> >>
    /\ files = {[path |-> <<"dl", "x", "a", "a">>, data |-> 1]}

\* What the claims call a violating name, read off the name's segments: a
\* leading separator, a ".." segment, or (on Windows) a leading drive.
NameViolates(win, name) ==
    \/ Len(name) > 1 /\ name[1] = ""
    \/ \E i \in DOMAIN name : name[i] = ".."
    \/ win /\ name[1] = "C:"

Kept(seg) == seg \notin {"", "."}

\* C6: safe_join fails exactly on the violating names, and otherwise returns the
\* root followed by the name's segments other than "" and ".", in order.
C6_SafeJoinResult ==
    pc = "returned" =>
      /\ jres.ok <=> ~NameViolates(windows, jname)
      /\ jres.ok => jres.path = Dest \o SelectSeq(jname, Kept)
      /\ jname = <<"a", "b", "c.txt">> => jres = [ok |-> TRUE, path |-> <<"dest", "a", "b", "c.txt">>]
      /\ jname = <<".", "x">> => jres = [ok |-> TRUE, path |-> <<"dest", "x">>]

C6_Witness ==
    /\ pc = "returned"
    /\ jname = <<".", "a", "b">>
    /\ jres = [ok |-> TRUE, path |-> <<"dest", "a", "b">>]

\* Index of the first violating entry of the archive (0 when there is none).
FirstViolating ==
    LET bad == {k \in DOMAIN archive : NameViolates(windows, archive[k])} IN
    IF bad = {} THEN 0 ELSE CHOOSE k \in bad : \A j \in bad : k <= j

\* C7: with a first violating entry k, the loop never passes k and the job never
\* succeeds or marks; every step that changes the file system handles an entry
\* before k; the step taken at entry k returns the error and leaves the file
\* system as it is, and so does every step after the job has returned.
C7_ViolationAbortsWithoutRollback ==
    /\ [](FirstViolating > 0 =>
            /\ idx <= FirstViolating
            /\ pc \notin {"mark", "complete"}
            /\ result # "ok"
            /\ ~marked
            /\ ~HasEvent("Extracted"))
    /\ [][(FirstViolating > 0 /\ pc = "zip_entry") =>
            /\ fsVars' # fsVars => idx < FirstViolating
            /\ idx = FirstViolating =>
                 (fsVars' = fsVars /\ pc' = "done" /\ result' = "err" /\ idx' = idx)]_vars
    /\ [][pc = "done" => fsVars' = fsVars]_vars

C7_Witness ==
    /\ error = "Unsafe zip entry path"
    /\ idx = 2
    /\ archive = << <<"a">>, <<"", "a">> >>
    /\ files = {[path |-> <<"dl", "x", "a">>, data |-> 1]}

\* C8: the record is marked only when every spawned worker ended Ok, the
\* extraction loop went through every entry and "Extracted" was emitted; a job
\* that returned an error with the record marked failed at the completion event.
C8_MarkedOnlyAfterFullSuccess ==
    marked =>
      /\ \A w \in Workers : wpc[w] \in {"none", "ok"}
      /\ idx = Len(archive) + 1
      /\ HasEvent("Extracting") /\ HasEvent("Extracted")
      /\ FirstViolating = 0
      /\ pc \in {"complete", "done"}
      /\ result = "err" => (error = "Emit failed" /\ pc = "done")

C8_Witness ==
    /\ marked
    /\ result = "ok"
    /\ Len(handles) = 3
    /\ Len(archive) = 2
    /\ files # {}

\* C9: the completion event is in the log once when the job returned Ok, never
\* when it returned an error or is still running, and never with the record
\* unmarked.
C9_CompletionEventOnce ==
    /\ result = "ok" => Count("download-complete") = 1
    /\ result # "ok" => Count("download-complete") = 0
    /\ Count("download-complete") > 0 => marked

C9_Witness ==
    /\ result = "ok"
    /\ Count("download-complete") = 1
    /\ log[Len(log)].k = "download-complete"
    /\ total = 0

DownloadEvent(e) == e.k \in {"percent", "Downloading"}

\* C10: in the log the download notifications come first, then "Extracting…",
\* "Extracted" and the completion event, each at most once and none without the
\* one before it; extraction touches nothing before "Extracting…", which needs
\* the download to have ended with every worker Ok; "Extracted" needs the loop
\* to have gone through every entry; the mark needs "Extracted" and the
\* completion event needs the mark.
C10_PhasesInOrder ==
    /\ \A i, j \in DOMAIN log :
         /\ (DownloadEvent(log[j]) /\ ~DownloadEvent(log[i])) => j < i
         /\ (log[i].k = "Extracting" /\ log[j].k \in {"Extracted", "download-complete"}) => i < j
         /\ (log[i].k = "Extracted" /\ log[j].k = "download-complete") => i < j
    /\ Count("Extracting") <= 1 /\ Count("Extracted") <= 1
    /\ HasEvent("Extracting") =>
         /\ \A w \in Workers : wpc[w] \in {"none", "ok"}
         /\ pc \notin {"start", "head", "single_get", "single_read", "open", "spawn",
                       "poll", "sleep", "join", "extracting"}
    /\ (idx >= 1 \/ files # {} \/ ExtractDir \in dirs) => HasEvent("Extracting")
    /\ HasEvent("Extracted") => (HasEvent("Extracting") /\ idx = Len(archive) + 1)
    /\ marked => HasEvent("Extracted")
    /\ HasEvent("download-complete") => marked
    /\ pc \in {"zip_open", "zip_entry"} => (HasEvent("Extracting") /\ ~HasEvent("Extracted"))
    /\ pc \in {"mark", "complete"} => HasEvent("Extracted")

C10_Witness ==
    /\ result = "ok"
    /\ Len(log) >= 5
    /\ log[1].k = "percent"
    /\ log[Len(log) - 2].k = "Extracting"
    /\ log[Len(log) - 1].k = "Extracted"
    /\ log[Len(log)].k = "download-complete"
    /\ files # {}

\* The single stream has passed its indeterminate notification (line 118).
PastIndeterminate ==
    \/ pc \in {"single_read", "extracting", "zip_open", "zip_entry", "mark", "complete"}
    \/ HasEvent("Extracting")
    \/ error \in {"Read error", "Write error"}

\* C11: when the probe finds no usable Content-Length the parallel path is never
\* entered (no file is pre-sized, no worker is spawned); and when the response
\* the single stream reads has none either, the log never holds a percentage
\* (so no final "100.00%"), holds "Downloading…" at most once, and holds it
\* exactly once from the first read on, whatever number of chunks is read.
C11_UnknownLengthSingleIndeterminate ==
    (pc \notin {"start", "head"} /\ total = 0) =>
      /\ pc \notin {"open", "spawn", "poll", "sleep", "join"}
      /\ handles = <<>>
      /\ \A w \in Workers : wpc[w] = "none"
      /\ downloaded = 0
      /\ sTotal = 0 =>
           /\ Count("percent") = 0
           /\ Count("Downloading") <= 1
           /\ PastIndeterminate => Count("Downloading") = 1
           /\ pc \in {"single_read", "extracting"} => log = <<MsgEvent("Downloading")>>

C11_Witness ==
    /\ total = 0
    /\ sTotal = 0
    /\ sDown = 3
    /\ pc = "extracting"
    /\ log = <<MsgEvent("Downloading")>>

\* Workers the spawn loop has started and that have not yet sent their request.
Launched == {w \in Workers : wpc[w] = "send"}

\* C12 as stated: after the spawn loop four workers are launched when T >= 4, and
\* fewer than four when T < 4.
C12_FourWorkersUnlessBelowFour ==
    pc = "poll" =>
      /\ Launched = Spawned
      /\ IF total < Chunks THEN Len(handles) < Chunks ELSE Len(handles) = Chunks

\* C12 as amended: with c the least number such that 4 * c >= T, the spawn loop
\* launches the least n with n * c >= T workers, all before the first poll: four
\* of them unless T is 1, 2, 3, 5, 6 or 9, where it launches T (T < 4) or 3.
C12_WorkerCount ==
    pc = "poll" =>
      LET c == CHOOSE k \in 1..total : Chunks * k >= total /\ Chunks * (k - 1) < total
          n == Len(handles) IN
      /\ n \in 1..Chunks
      /\ n * c >= total /\ (n - 1) * c < total
      /\ Launched = 1..n
      /\ n < Chunks <=> total \in {1, 2, 3, 5, 6, 9}
      /\ total \in {5, 6, 9} => n = 3
      /\ total < Chunks => n = total

C12_Witness == pc = "poll" /\ total = 9 /\ Launched = {1, 2, 3} /\ handles[3].end = 8

Blank(v) == \A i \in DOMAIN v : v[i] = " "

\* What the claim says resolution returns when nothing but the override and the
\* setting decide it: the override when present and non-empty, else the setting
\* when set and not blank, else the default.
ClaimedDir ==
    IF download_dir.some /\ download_dir.val # <<>> THEN download_dir.val
    ELSE IF store.row.some /\ ~Blank(store.row.val) THEN store.row.val
    ELSE <<"~", "/", ".rusty-roms", "/", "downloads">>

EndsInZip(v) ==
    /\ Len(v) >= 4
    /\ v[Len(v) - 3] = "."
    /\ v[Len(v) - 2] \in {"z", "Z"}
    /\ v[Len(v) - 1] \in {"i", "I"}
    /\ v[Len(v)] \in {"p", "P"}

\* C16: the coerced name ends in the extension; it is the given name when that
\* already ends in it in any case, and the given name followed by ".zip"
\* otherwise; coercing the coerced name changes nothing.
C16_ForceZipOnce ==
    /\ Len(fres) >= 1 =>
         /\ EndsInZip(fres[1])
         /\ EndsInZip(file_name) => fres[1] = file_name
         /\ ~EndsInZip(file_name) => fres[1] = file_name \o <<".", "z", "i", "p">>
    /\ Len(fres) = 2 => fres[2] = fres[1]

C16_Witness ==
    /\ file_name = <<"z", ".", "Z", "i", "P">>
    /\ fres = <<file_name, file_name>>

\* C14: the job never returns the error of a progress event the window did not
\* accept, and such a failure never leaves a spawned worker running after the
\* job has returned.
C14_SinkFailureIsNotFatal ==
    /\ result = "err" => error # "Emit failed"
    /\ (pc = "done" /\ error = "Emit failed") => \A w \in Spawned : Terminated(w)

\* Workers inside the block of lines 226-232: the lock taken, the write not done.
Holders == {w \in Workers : wpc[w] \in {"seek", "write"}}

\* C17: at most one worker is inside the locked block and it is the holder of
\* the mutex; a worker that has sought finds the file position at its own
\* offset when it writes; while a worker is inside the block every change of
\* the file position or of the file's content is that worker's own step; and a
\* completed write puts the chunk at the worker's offset.
C17_ExclusiveSeekThenWrite ==
    /\ [](/\ Cardinality(Holders) <= 1
          /\ IF mutex = 0 THEN Holders = {} ELSE Holders = {mutex}
          /\ \A w \in Workers : wpc[w] = "write" => cursor = offset[w])
    /\ [][\A w \in Workers :
            /\ (w \in Holders /\ fileVars' # fileVars) => wpc'[w] # wpc[w]
            /\ (wpc[w] = "write" /\ wpc'[w] = "add") =>
                 written'[w] = written[w] \o Landing(offset[w], nbuf[w])]_vars

C17_Witness ==
    /\ wpc[1] = "write"
    /\ wpc[2] = "lock"
    /\ wpc[3] = "lock"
    /\ mutex = 1
    /\ cursor = offset[1]

\* Offsets written by worker w.
Wrote(w) == {written[w][i] : i \in DOMAIN written[w]}

\* C18: every offset a worker has written lies in its own range, no offset was
\* written by two workers, and none lies at or beyond the total size.
C18_WritesStayInOwnRange ==
    /\ \A w \in Spawned : \A o \in Wrote(w) : handles[w].start <= o /\ o <= handles[w].end
    /\ \A w, v \in Spawned : w # v => Wrote(w) \cap Wrote(v) = {}
    /\ \A w \in Workers : \A o \in Wrote(w) : o < total

\* ranged_parallel_download_4 has returned Ok from its parallel path.
ParallelOk == pc = "extracting" /\ handles # <<>>

\* Every worker read a body of total_size bytes to its end and wrote it.
WholeBodyEach == \A w \in Spawned : wpc[w] = "ok" /\ Len(written[w]) = total

\* C19 as stated: when every worker was answered with the whole body and the
\* download returned Ok, each worker wrote the whole body from its start offset
\* on, and an offset outside the writer's range was written.
C19_WholeBodyUndetected ==
    (ParallelOk /\ WholeBodyEach) =>
      /\ \A w \in Spawned : written[w] = Landing(handles[w].start, total)
      /\ \E w \in Spawned : \E o \in Wrote(w) : o > handles[w].end

\* C19 as amended: the same, the offsets outside the writers' ranges (and beyond
\* the pre-allocated size) being written when the total size is at least 2; a
\* resource of 1 byte has one worker whose range is the whole body.
C19_WholeBodyCorrupts ==
    (ParallelOk /\ WholeBodyEach) =>
      /\ \A w \in Spawned : written[w] = Landing(handles[w].start, total)
      /\ total >= 2 =>
           /\ \E w \in Spawned : \E o \in Wrote(w) : o > handles[w].end
           /\ \E w \in Spawned : \E o \in Wrote(w) : o >= total
           /\ \E w, v \in Spawned : w # v /\ Wrote(w) \cap Wrote(v) # {}
      /\ total = 1 => written[1] = <<0>>

C19_Witness ==
    /\ ParallelOk
    /\ total = 2
    /\ written[1] = <<0, 1>>
    /\ written[2] = <<1, 2>>
    /\ log[Len(log)] = PctEvent(Hundred)

\* Every worker read a body of the length of its range to its end and wrote it.
RangeBodyEach ==
    \A w \in Spawned :
      wpc[w] = "ok" /\ Len(written[w]) = handles[w].end - handles[w].start + 1

\* Something went wrong in the download: an error was returned, a worker
\* failed, or a response in flight carries another number of bytes than its range.
Faulted ==
    \/ result = "err"
    \/ \E w \in Spawned : wpc[w] \in {"err", "panicked"}
    \/ \E w \in Spawned :
         /\ wpc[w] \in {"read", "lock", "seek", "write", "add"}
         /\ offset[w] + nbuf[w] + rem[w] # handles[w].end + 1

\* Number of times offset o was written, by any worker.
TimesWritten(o) ==
    Cardinality({x \in Workers \X (1..(2 * MaxTotal)) :
                   x[2] \in DOMAIN written[x[1]] /\ written[x[1]][x[2]] = o})

\* C20: once the workers are spawned the download returns Ok unless something
\* goes wrong; and when it has returned Ok with every worker having received
\* the bytes of its range, every worker was joined with Ok, every offset of
\* [0,T) was written exactly once and nothing else was, the counter is T, and
\* the last notification is the final "100.00%".
C20_HonestDownloadCompletes ==
    /\ (pc = "poll") ~> (ParallelOk \/ Faulted)
    /\ []((ParallelOk /\ RangeBodyEach) =>
            /\ joinIdx = Len(handles) + 1
            /\ \A w \in Spawned : wpc[w] = "ok"
            /\ \A o \in 0..(total - 1) : TimesWritten(o) = 1
            /\ \A w \in Workers : \A o \in Wrote(w) : o < total
            /\ downloaded = total
            /\ log[Len(log)] = PctEvent(Hundred))

C20_Witness ==
    /\ ParallelOk
    /\ total = 3
    /\ written = <<<<0>>, <<1>>, <<2>>, <<>>>>
    /\ log = <<PctEvent(Hundred), PctEvent(Hundred)>>

\* Errors of extract_zip that come from reading the archive or from a copy that
\* breaks off, not from what the destination holds.
ReadErrors ==
    {"Failed to open zip for extraction", "Invalid zip archive",
     "Failed to create extract directory", "Failed reading zip entry",
     "Failed extracting"}

\* C15: after a first run that returned Ok, the second run on the same archive
\* and destination is not refused by what the first run left (it fails only
\* when reading the archive or a copy fails), and when it has returned Ok the
\* directories, the files and each file's content are those the first run left.
C15_ExtractTwiceSameTree ==
    first_tree.run =>
      /\ result = "err" => error \in ReadErrors
      /\ pc = "extracted_twice" => (dirs = first_tree.dirs /\ files = first_tree.files)

RECURSIVE WrittenBy(_)
\* Number of bytes the workers 1..n have written to the file.
WrittenBy(n) == IF n = 0 THEN 0 ELSE Len(written[n]) + WrittenBy(n - 1)

BytesWritten == WrittenBy(Chunks)

\* C21: the counter is 0 until workers exist and never exceeds the number of
\* bytes the workers have written; a step never lowers it; a step that changes
\* it is a worker's step after its write, adds the length of the chunk that
\* worker has just written at its offset, and is no step of the coordinator.
C21_CounterCountsWrittenBytes ==
    /\ [](/\ handles = <<>> => downloaded = 0
          /\ 0 <= downloaded /\ downloaded <= BytesWritten)
    /\ [][/\ downloaded' >= downloaded
          /\ downloaded' # downloaded =>
               /\ <<pc, result, error, log, joinIdx>>' = <<pc, result, error, log, joinIdx>>
               /\ \E w \in Workers :
                    /\ wpc[w] = "add" /\ wpc'[w] = "read"
                    /\ nbuf[w] >= 1
                    /\ downloaded' = downloaded + nbuf[w]
                    /\ Len(written[w]) >= nbuf[w]
                    /\ SubSeq(written[w], Len(written[w]) - nbuf[w] + 1, Len(written[w]))
                         = Landing(offset[w], nbuf[w])]_vars

C21_Witness ==
    /\ total = 3
    /\ downloaded = 2
    /\ BytesWritten = 3
    /\ wpc[3] = "add"

\* Workers the spawn loop has started, whatever they have done since.
Started == {w \in Workers : wpc[w] # "none"}

\* The range requests sent so far.
RangeRequests == {r \in BagToSet(requests) : r.range # <<>>}

\* C22: the spawn loop runs with the file at exactly total_size, so every worker
\* is launched, and every write made, with the file pre-sized; until the spawn
\* loop has run no worker exists and nothing is written; and when opening or
\* pre-sizing the file has failed no worker exists, no range request was sent
\* and nothing was written.
C22_PresizedBeforeWorkers ==
    /\ [](/\ pc = "spawn" => flen = total
          /\ pc \in {"head", "open", "spawn"} =>
               (Started = {} /\ handles = <<>> /\ BytesWritten = 0 /\ RangeRequests = {})
          /\ (Started # {} \/ BytesWritten > 0 \/ RangeRequests # {}) =>
               (flen >= total /\ handles = PlanRanges(total))
          /\ error \in {"File open error", "Failed to set file size"} =>
               /\ Started = {} /\ handles = <<>>
               /\ BytesWritten = 0 /\ RangeRequests = {}
               /\ downloaded = 0)
    /\ [][/\ (wpc' # wpc /\ Started = {}) => (pc = "spawn" /\ flen = total /\ flen' = total)
          /\ written' # written => flen >= total]_vars

C22_Witness ==
    /\ total = 3
    /\ flen = 3
    /\ wpc[2] = "write"
    /\ wpc[1] = "send"
    /\ BytesWritten = 0

\* The probe has returned a capability descriptor.
Probed == pc # "head" /\ error \notin {"HEAD failed", "HEAD HTTP error"}

\* The parallel path was entered (line 175 reached).
UsedParallel ==
    \/ pc \in {"open", "spawn", "poll", "sleep", "join"}
    \/ handles # <<>>
    \/ error \in {"File open error", "Failed to set file size"}

\* single_stream_download was called (line 172).
UsedSingle == pc = "single_get" \/ BagIn(BodyRequest, requests)

\* C23: once the probe has answered, the parallel path is the one taken exactly
\* when total_size > 0 and ranges are supported, and the single stream exactly
\* otherwise; with the single stream there is no worker, no handle, no range
\* request, no counted or positioned write, and the file is never sized: it is
\* left alone, created empty (or truncated), or grown by the bytes just read,
\* so that its length is the number of bytes written to it.
C23_ParallelIffSizeAndRanges ==
    /\ [](Probed =>
            /\ UsedParallel <=> (total > 0 /\ ranges)
            /\ UsedSingle <=> ~(total > 0 /\ ranges)
            /\ UsedSingle =>
                 /\ Started = {} /\ handles = <<>> /\ RangeRequests = {}
                 /\ BytesWritten = 0 /\ downloaded = 0 /\ mutex = 0
                 /\ CopiesIn(BodyRequest, requests) <= 1
                 /\ (pc = "single_read" \/ pc = "extracting") => flen = sDown
                 /\ error \in {"Read error", "Write error", "Emit failed"} =>
                      (sDown <= flen /\ flen < sDown + MaxRead))
    /\ [][(Probed /\ UsedSingle) =>
            \/ flen' = flen
            \/ pc = "single_get" /\ pc' \in {"single_read", "done"} /\ flen' = 0
            \/ pc = "single_read" /\ flen' > flen /\ flen' - flen <= Min(sRem, MaxRead)]_vars

C23_Witness ==
    /\ total = 3
    /\ ~ranges
    /\ pc = "single_read"
    /\ sTotal = 3
    /\ sDown = 2
    /\ flen = 2
    /\ requests = SetToBag({HeadRequest, BodyRequest})

\* The errors of the capability probe (lines 152-155).
HeadErrors == {"HEAD failed", "HEAD HTTP error"}

\* C24: the probe's error is returned by the step that meets it, from the probe
\* straight to the job's return; up to and including that step the file at the
\* artifact's path is as the job found it; and once the job has returned it
\* the HEAD request is the only request sent, there is no worker and no handle,
\* no event was emitted, nothing was extracted or marked, and no step follows.
C24_ProbeFailureAborts ==
    /\ [](error \in HeadErrors =>
            /\ pc = "done" /\ result = "err"
            /\ requests = SetToBag({HeadRequest})
            /\ Started = {} /\ handles = <<>>
            /\ BytesWritten = 0 /\ downloaded = 0
            /\ log = <<>>
            /\ idx = 0 /\ archive = <<>> /\ files = {} /\ dirs = Prefixes(DownloadsDir)
            /\ ~marked)
    /\ [][/\ pc \in {"start", "head"} => flen' = flen
          /\ (error' \in HeadErrors /\ error \notin HeadErrors) =>
               (pc = "head" /\ pc' = "done" /\ result' = "err")
          /\ error \in HeadErrors => vars' = vars]_vars

C24_Witness ==
    /\ error = "HEAD HTTP error"
    /\ result = "err"
    /\ flen = MaxOldLen
    /\ dirs = Prefixes(DownloadsDir)
    /\ log = <<>>

\* The worker's closure has ended without Ok.
Failed(w) == wpc[w] \in {"err", "panicked"}

\* What single steps do with a failed worker: a worker that fails at its request
\* (the request itself or the status check) has written nothing, and the step
\* writes nothing and leaves the counter alone; a worker that has failed does
\* nothing more; the join of a worker that panicked returns "A download thread
\* panicked", and that message is returned for no other reason.
FailedWorkerSteps ==
    /\ [][\A w \in Workers :
            /\ (wpc[w] = "send" /\ Failed(w)') =>
                 /\ written[w] = <<>> /\ written' = written
                 /\ downloaded' = downloaded /\ flen' = flen
            /\ Failed(w) =>
                 (wpc'[w] = wpc[w] /\ written'[w] = written[w])]_vars
    /\ [][(pc = "join" /\ pc' # pc /\ joinIdx <= Len(handles) /\ wpc[joinIdx] = "panicked") =>
            (result' = "err" /\ error' = "A download thread panicked")]_vars
    /\ [](error = "A download thread panicked" =>
            (joinIdx \in Spawned /\ wpc[joinIdx] = "panicked"))

\* C25: a worker whose request fails (at the status check or before it) writes
\* no byte and does not advance the counter, and a worker that panicked is
\* reported: once a worker has panicked the job eventually returns an error,
\* which is "A download thread panicked" when the join loop meets that worker.
C25_StatusFailureSilentPanicReported ==
    /\ FailedWorkerSteps
    /\ (\E w \in Workers : wpc[w] = "panicked") ~> (result = "err")

\* C26: no request was sent twice: the HEAD request, the single stream's GET and
\* each range request are sent at most once, and never both a single-stream GET
\* and a range request; every range request is the one of a planned range, sent
\* by the worker spawned for it, and that worker has sent it exactly when it has
\* left its first position; the plan, once made, does not change; a worker that
\* has sent its request never sends again, and one that has ended stays ended.
C26_NoRetry ==
    /\ [](/\ \A r \in BagToSet(requests) : CopiesIn(r, requests) = 1
          /\ BagToSet(requests) \subseteq {HeadRequest, BodyRequest} \cup RangeRequests
          /\ ~(BagIn(BodyRequest, requests) /\ RangeRequests # {})
          /\ pc # "head" <=> BagIn(HeadRequest, requests)
          /\ \A r \in RangeRequests : r.by \in Spawned /\ r = RangeRequest(r.by)
          /\ \A r, q \in RangeRequests : r.range = q.range => r.by = q.by
          /\ \A w \in Spawned : BagIn(RangeRequest(w), requests) <=> wpc[w] # "send"
          /\ BagCardinality(requests) <= 1 + Max(1, Len(handles)))
    /\ [][/\ handles # <<>> => handles' = handles
          /\ \A w \in Workers :
               /\ wpc[w] \notin {"none", "send"} => wpc'[w] \notin {"none", "send"}
               /\ Terminated(w) => wpc'[w] = wpc[w]]_vars

C26_Witness ==
    /\ total = 3
    /\ pc = "sleep"
    /\ wpc = <<"err", "panicked", "ok", "none">>
    /\ BagCardinality(requests) = 4
    /\ BagIn(RangeRequest(1), requests)

\* The download has returned Ok to download_file: line 369 is reached or passed.
DownloadOver ==
    \/ pc \in {"extracting", "zip_open", "zip_entry", "mark", "complete"}
    \/ HasEvent("Extracting")

\* C27: from the return of the download on (so when "Extracting…" is emitted and
\* when extract_zip opens the archive) every worker that was launched has
\* returned Ok and was joined, none holds the file's lock, and no step changes
\* the artifact file, a worker's position or the counter any more.
C27_ExtractionAfterDownload ==
    /\ [](DownloadOver =>
            /\ Started = Spawned
            /\ \A w \in Spawned : wpc[w] = "ok" /\ rem[w] = 0 /\ nbuf[w] = 0
            /\ handles # <<>> => joinIdx = Len(handles) + 1
            /\ mutex = 0
            /\ sRem = 0)
    /\ [][DownloadOver =>
            (fileVars' = fileVars /\ wpc' = wpc /\ downloaded' = downloaded
               /\ requests' = requests)]_vars

C27_Witness ==
    /\ pc = "zip_entry"
    /\ log[Len(log)] = MsgEvent("Extracting")
    /\ wpc = <<"ok", "ok", "ok", "none">>
    /\ written = <<<<0>>, <<1>>, <<2>>, <<>>>>
    /\ flen = 3
    /\ files # {}
====
